---------------------------- MODULE Spec2Model ----------------------------
(***************************************************************************)
(* The streaming job-progress channel of the dashboard:                    *)
(* generateFrogPlaylistStreaming (lib/api.ts).  One subscription: a fetch  *)
(* whose response body is read chunk by chunk, decoded as UTF-8, split     *)
(* into lines, and whose "data: " lines are parsed and routed to           *)
(* onProgress / onResult / onError; the returned function aborts the       *)
(* exchange.                                                               *)
(*                                                                         *)
(* Around it, the playlists page that starts and supersedes jobs and       *)
(* holds the track selections (app/playlists/page.tsx), and the            *)
(* RangeSlider component.                                                  *)
(*                                                                         *)
(* Text is a sequence of UTF-16 code units, a response body a sequence of  *)
(* bytes; both are tuples of integers.                                     *)
(***************************************************************************)
EXTENDS Integers, Sequences, FiniteSets, TLC

\* ---- bounds ----

\* how many times the caller calls the returned cancel function
MaxCancels == 2

\* the size of the chunks when two subscriptions are open at once
TwoChunk == 10

\* how many tracks the result of a job holds at most
MaxItems == 2

\* how many tracks the pickers of the playlists page offer
MaxTracks == 6

\* how many jobs handleGenerateFrog starts
MaxJobs == 3

\* the max prop of the RangeSlider
SliderMax == 7

\* ---- characters ----

\* '\n', the separator of buffer.split('\n')
LF == 10

\* U+FFFD, what a non-fatal TextDecoder emits for a malformed sequence
Replacement == 65533

\* U+FEFF, stripped once at the start of the stream by TextDecoder
BOM == 65279

\* data: 
DataPrefix ==
    <<100, 97, 116, 97, 58, 32>>


\* ---- JSON payload texts (UTF-16 code units) ----

\* {"type":"progress","best_h":1}
JProgress1 ==
    <<123, 34, 116, 121, 112, 101, 34, 58, 34, 112, 114, 111, 103, 114, 101,
      115, 115, 34, 44, 34, 98, 101, 115, 116, 95, 104, 34, 58, 49, 125>>

\* {"type":"progress","best_h":2}
JProgress2 ==
    <<123, 34, 116, 121, 112, 101, 34, 58, 34, 112, 114, 111, 103, 114, 101,
      115, 115, 34, 44, 34, 98, 101, 115, 116, 95, 104, 34, 58, 50, 125>>

\* {"type":"result","success":true}
JResultOk ==
    <<123, 34, 116, 121, 112, 101, 34, 58, 34, 114, 101, 115, 117, 108, 116,
      34, 44, 34, 115, 117, 99, 99, 101, 115, 115, 34, 58, 116, 114, 117,
      101, 125>>

\* {"type":"result"}
JResult ==
    <<123, 34, 116, 121, 112, 101, 34, 58, 34, 114, 101, 115, 117, 108, 116,
      34, 125>>

\* {"type":"progress"}
JProgress ==
    <<123, 34, 116, 121, 112, 101, 34, 58, 34, 112, 114, 111, 103, 114, 101,
      115, 115, 34, 125>>

\* {"type":"error"}
JError ==
    <<123, 34, 116, 121, 112, 101, 34, 58, 34, 101, 114, 114, 111, 114, 34,
      125>>

\* {"type":"ping"}
JPing ==
    <<123, 34, 116, 121, 112, 101, 34, 58, 34, 112, 105, 110, 103, 34, 125>>

\* {}
JEmpty ==
    <<123, 125>>

\* {"type":"result","success":false}
JResultFail ==
    <<123, 34, 116, 121, 112, 101, 34, 58, 34, 114, 101, 115, 117, 108, 116,
      34, 44, 34, 115, 117, 99, 99, 101, 115, 115, 34, 58, 102, 97, 108, 115,
      101, 125>>

\* {"type":"progress","message":"U+FFFD"}
JProgressReplaced ==
    <<123, 34, 116, 121, 112, 101, 34, 58, 34, 112, 114, 111, 103, 114, 101,
      115, 115, 34, 44, 34, 109, 101, 115, 115, 97, 103, 101, 34, 58, 34,
      65533, 34, 125>>

\* {"type":"error","error":"e-acute (U+00E9)"}
JErrorAccent ==
    <<123, 34, 116, 121, 112, 101, 34, 58, 34, 101, 114, 114, 111, 114, 34,
      44, 34, 101, 114, 114, 111, 114, 34, 58, 34, 233, 34, 125>>


\* ---- response bodies (bytes) ----

\* data: {"type":"progress","best_h":1}\n\ndata: {"type":"progress","best_h":2}\n\ndata: {"type":"result","success":true}\n\n
StreamJob ==
    <<100, 97, 116, 97, 58, 32, 123, 34, 116, 121, 112, 101, 34, 58, 34, 112,
      114, 111, 103, 114, 101, 115, 115, 34, 44, 34, 98, 101, 115, 116, 95,
      104, 34, 58, 49, 125, 10, 10, 100, 97, 116, 97, 58, 32, 123, 34, 116,
      121, 112, 101, 34, 58, 34, 112, 114, 111, 103, 114, 101, 115, 115, 34,
      44, 34, 98, 101, 115, 116, 95, 104, 34, 58, 50, 125, 10, 10, 100, 97,
      116, 97, 58, 32, 123, 34, 116, 121, 112, 101, 34, 58, 34, 114, 101,
      115, 117, 108, 116, 34, 44, 34, 115, 117, 99, 99, 101, 115, 115, 34,
      58, 116, 114, 117, 101, 125, 10, 10>>

\* data: {"type":"result"}\ndata: {"type":"progress"}\ndata: {"type":"error"}\n
StreamAfterTerminal ==
    <<100, 97, 116, 97, 58, 32, 123, 34, 116, 121, 112, 101, 34, 58, 34, 114,
      101, 115, 117, 108, 116, 34, 125, 10, 100, 97, 116, 97, 58, 32, 123,
      34, 116, 121, 112, 101, 34, 58, 34, 112, 114, 111, 103, 114, 101, 115,
      115, 34, 125, 10, 100, 97, 116, 97, 58, 32, 123, 34, 116, 121, 112,
      101, 34, 58, 34, 101, 114, 114, 111, 114, 34, 125, 10>>

\* BOM data: {"type":"error","error":"e-acute as C3 A9"}\n data: {"type":"result"}   (last line unterminated)
StreamAccent ==
    <<239, 187, 191, 100, 97, 116, 97, 58, 32, 123, 34, 116, 121, 112, 101,
      34, 58, 34, 101, 114, 114, 111, 114, 34, 44, 34, 101, 114, 114, 111,
      114, 34, 58, 34, 195, 169, 34, 125, 10, 100, 97, 116, 97, 58, 32, 123,
      34, 116, 121, 112, 101, 34, 58, 34, 114, 101, 115, 117, 108, 116, 34,
      125>>

\* : ka\ndata: {broken\ndata: {"type":"ping"}\ndata: {"type":"progress"}\n
StreamNoise ==
    <<58, 32, 107, 97, 10, 100, 97, 116, 97, 58, 32, 123, 98, 114, 111, 107,
      101, 110, 10, 100, 97, 116, 97, 58, 32, 123, 34, 116, 121, 112, 101,
      34, 58, 34, 112, 105, 110, 103, 34, 125, 10, 100, 97, 116, 97, 58, 32,
      123, 34, 116, 121, 112, 101, 34, 58, 34, 112, 114, 111, 103, 114, 101,
      115, 115, 34, 125, 10>>

\* {"detail":"Not Found"}
BodyDetail ==
    <<123, 34, 100, 101, 116, 97, 105, 108, 34, 58, 34, 78, 111, 116, 32, 70,
      111, 117, 110, 100, 34, 125>>

\* data: {"type":"progress"}\n
BodyEventOnError ==
    <<100, 97, 116, 97, 58, 32, 123, 34, 116, 121, 112, 101, 34, 58, 34, 112,
      114, 111, 103, 114, 101, 115, 115, 34, 125, 10>>

\* data: {"type":"progress"}\nnot json\ndata: {broken\n\ndata: {}\ndata: {"type":"result","success":false}\n
StreamTolerance ==
    <<100, 97, 116, 97, 58, 32, 123, 34, 116, 121, 112, 101, 34, 58, 34, 112,
      114, 111, 103, 114, 101, 115, 115, 34, 125, 10, 110, 111, 116, 32, 106,
      115, 111, 110, 10, 100, 97, 116, 97, 58, 32, 123, 98, 114, 111, 107,
      101, 110, 10, 10, 100, 97, 116, 97, 58, 32, 123, 125, 10, 100, 97, 116,
      97, 58, 32, 123, 34, 116, 121, 112, 101, 34, 58, 34, 114, 101, 115,
      117, 108, 116, 34, 44, 34, 115, 117, 99, 99, 101, 115, 115, 34, 58,
      102, 97, 108, 115, 101, 125, 10>>

\* data: {"type":"progress","message":"<byte FF>"}\n
StreamBadByte ==
    <<100, 97, 116, 97, 58, 32, 123, 34, 116, 121, 112, 101, 34, 58, 34, 112,
      114, 111, 103, 114, 101, 115, 115, 34, 44, 34, 109, 101, 115, 115, 97,
      103, 101, 34, 58, 34, 255, 34, 125, 10>>

\* data: {"type":"result"}\n
StreamShort ==
    <<100, 97, 116, 97, 58, 32, 123, 34, 116, 121, 112, 101, 34, 58, 34, 114,
      101, 115, 117, 108, 116, 34, 125, 10>>

\* data: {"type":"error"}\n
StreamError ==
    <<100, 97, 116, 97, 58, 32, 123, 34, 116, 121, 112, 101, 34, 58, 34, 101,
      114, 114, 111, 114, 34, 125, 10>>


\* ---- lines that are no event ----

\* not json
LineNotJson ==
    <<110, 111, 116, 32, 106, 115, 111, 110>>

\* data: {broken
LineBroken ==
    <<100, 97, 116, 97, 58, 32, 123, 98, 114, 111, 107, 101, 110>>

\* : ka
LineComment ==
    <<58, 32, 107, 97>>

\* ---- the producer of result frames ----

\* The tracks of a result with n of them, as the job producer numbers
\* them: the k-th track has position k - 1.
ProducerTracks(n) == [k \in 1..n |-> [position |-> k - 1]]

\* "position":
PositionKey == <<34, 112, 111, 115, 105, 116, 105, 111, 110, 34, 58>>

\* {"position":p} for each track, separated by commas.  A position is
\* written as one decimal digit.
RECURSIVE TracksText(_)
TracksText(tracks) ==
    IF tracks = << >> THEN << >>
    ELSE << 123 >> \o PositionKey \o << 48 + tracks[1].position, 125 >>
         \o (IF Len(tracks) > 1 THEN << 44 >> ELSE << >>)
         \o TracksText(Tail(tracks))

\* {"type":"result","tracks":[...]}
ResultText(tracks) ==
    <<123, 34, 116, 121, 112, 101, 34, 58, 34, 114, 101, 115, 117, 108, 116,
      34, 44, 34, 116, 114, 97, 99, 107, 115, 34, 58, 91>>
    \o TracksText(tracks) \o << 93, 125 >>

\* The body of a job that ends at once with a result of n tracks.
ProducerBody(n) == DataPrefix \o ResultText(ProducerTracks(n)) \o << LF >>

\* ---- JSON.parse ----

\* The JSON texts that occur as payloads, with the value of their "type"
\* member.  Every other payload text of the modelled bodies is not JSON.
JsonTable ==
    { [text |-> JProgress1,   type |-> "progress"],
      [text |-> JProgress2,   type |-> "progress"],
      [text |-> JProgress,    type |-> "progress"],
      [text |-> JResultOk,    type |-> "result"],
      [text |-> JResult,      type |-> "result"],
      [text |-> JError,       type |-> "error"],
      [text |-> JErrorAccent, type |-> "error"],
      [text |-> JPing,        type |-> "ping"],
      [text |-> JEmpty,       type |-> "undefined"],
      [text |-> JResultFail,  type |-> "result"],
      [text |-> JProgressReplaced, type |-> "progress"] }
    \cup { [text |-> ResultText(ProducerTracks(n)), type |-> "result"] :
             n \in 1..MaxItems }

\* JSON.parse(data): the parsed event (its type), or a thrown SyntaxError.
JSONparse(data) ==
    IF \E j \in JsonTable : j.text = data
    THEN [threw |-> FALSE, type |-> (CHOOSE j \in JsonTable : j.text = data).type]
    ELSE [threw |-> TRUE, type |-> "SyntaxError"]

\* An event whose first track is lost on the way to the handler.
EventTracks_DropFirst(data) ==
    LET at == { i \in 1..(Len(data) - Len(PositionKey)) :
                  SubSeq(data, i, i + Len(PositionKey) - 1) = PositionKey }
        ps == [k \in 1..Cardinality(at) |->
                 LET i == CHOOSE i \in at : Cardinality({j \in at : j < i}) = k - 1
                 IN  data[i + Len(PositionKey)] - 48]
    IN  IF ps = << >> THEN ps ELSE Tail(ps)

\* event.tracks of JSON.parse(data), as the handler receives it: the
\* position of each track, in array order.  The value of every "position"
\* member of the text is read, one decimal digit each; a text without
\* tracks has none.
EventTracks(data) ==
    LET at == { i \in 1..(Len(data) - Len(PositionKey)) :
                  SubSeq(data, i, i + Len(PositionKey) - 1) = PositionKey }
    IN  [k \in 1..Cardinality(at) |->
           LET i == CHOOSE i \in at : Cardinality({j \in at : j < i}) = k - 1
           IN  data[i + Len(PositionKey)] - 48]

\* ---- TextDecoder('utf-8').decode(value, {stream: true}) ----

\* The decoder between two chunks: no character pending, nothing emitted,
\* BOM not yet looked for.
NewDecoder ==
    [cp |-> 0, needed |-> 0, seen |-> 0, lower |-> 128, upper |-> 191,
     bomDone |-> FALSE]

\* One scalar value leaves the decoder: a leading U+FEFF is dropped, a
\* value above U+FFFF becomes a surrogate pair.
Emit(st, out, c) ==
    LET units == IF c > 65535
                 THEN << 55296 + ((c - 65536) \div 1024),
                         56320 + ((c - 65536) % 1024) >>
                 ELSE << c >>
    IN  [st  |-> [st EXCEPT !.cp = 0, !.needed = 0, !.seen = 0,
                            !.lower = 128, !.upper = 191, !.bomDone = TRUE],
         out |-> IF ~st.bomDone /\ c = BOM THEN out ELSE out \o units]

\* The decoder reads a byte when no character is pending.
Utf8Lead(st, out, b) ==
    IF b <= 127 THEN Emit(st, out, b)
    ELSE IF b \in 194..223
    THEN [st |-> [st EXCEPT !.needed = 1, !.seen = 0, !.cp = b - 192], out |-> out]
    ELSE IF b \in 224..239
    THEN [st |-> [st EXCEPT !.needed = 2, !.seen = 0, !.cp = b - 224,
                            !.lower = IF b = 224 THEN 160 ELSE 128,
                            !.upper = IF b = 237 THEN 159 ELSE 191],
          out |-> out]
    ELSE IF b \in 240..244
    THEN [st |-> [st EXCEPT !.needed = 3, !.seen = 0, !.cp = b - 240,
                            !.lower = IF b = 240 THEN 144 ELSE 128,
                            !.upper = IF b = 244 THEN 143 ELSE 191],
          out |-> out]
    ELSE Emit(st, out, Replacement)

\* The decoder reads one byte.
Utf8Byte(st, out, b) ==
    IF st.needed = 0 THEN Utf8Lead(st, out, b)
    ELSE IF b \notin st.lower..st.upper
    THEN LET r == Emit(st, out, Replacement) IN Utf8Lead(r.st, r.out, b)
    ELSE LET cp == st.cp * 64 + (b - 128) IN
         IF st.seen + 1 = st.needed
         THEN Emit(st, out, cp)
         ELSE [st |-> [st EXCEPT !.cp = cp, !.seen = st.seen + 1,
                                 !.lower = 128, !.upper = 191],
               out |-> out]

\* The decoder reads bytes[i..j], in order.  Halving the range keeps the
\* evaluation shallow; the bytes are still read one by one, left to right,
\* and the test on r.st only makes the left half be evaluated before the
\* right half starts (it is always true).
RECURSIVE Utf8Run(_, _, _, _, _)
Utf8Run(st, out, bytes, i, j) ==
    IF i > j THEN [st |-> st, out |-> out]
    ELSE IF i = j THEN Utf8Byte(st, out, bytes[i])
    ELSE LET mid == (i + j) \div 2
             r   == Utf8Run(st, out, bytes, i, mid)
         IN  IF r.st.needed >= 0
             THEN Utf8Run(r.st, r.out, bytes, mid + 1, j)
             ELSE r

\* A decode() without {stream: true}: the pending bytes are flushed as
\* U+FFFD at the end of every chunk.
DecodeChunk_NoStream(st, value) ==
    LET r == Utf8Run(st, << >>, value, 1, Len(value))
    IN  IF r.st.needed = 0 THEN [st |-> r.st, text |-> r.out]
        ELSE LET f == Emit(r.st, r.out, Replacement)
             IN  [st |-> f.st, text |-> f.out]

\* decoder.decode(value, {stream: true}): the text of the chunk, and the
\* decoder with the bytes of an incomplete character kept for the next one.
DecodeChunk(st, value) ==
    LET r == Utf8Run(st, << >>, value, 1, Len(value)) IN [st |-> r.st, text |-> r.out]

\* ---- buffer.split('\n') ----

\* buffer.indexOf('\n') + 1: the position of the first line break, 0 when
\* there is none.
FirstLF(s) ==
    IF \E i \in 1..Len(s) : s[i] = LF
    THEN CHOOSE i \in 1..Len(s) :
            s[i] = LF /\ \A k \in 1..(i - 1) : s[k] # LF
    ELSE 0

RECURSIVE Split(_)
Split(s) ==
    LET i == FirstLF(s)
    IN  IF i = 0 THEN << s >>
        ELSE << SubSeq(s, 1, i - 1) >> \o Split(SubSeq(s, i + 1, Len(s)))

\* A read loop that forgets to take the processed lines out of the buffer.
Residual_KeepAll(text) == text

\* buffer = lines.pop() || '': the segment after the last line break.
Residual(text) ==
    LET segs == Split(text) IN segs[Len(segs)]

\* lines, after lines.pop(): every segment a line break ended.
CompleteLines(text) ==
    LET segs == Split(text) IN SubSeq(segs, 1, Len(segs) - 1)

\* ---- one line of the for loop ----

\* line.startsWith('data: ')
StartsWithData(line) ==
    /\ Len(line) >= Len(DataPrefix)
    /\ SubSeq(line, 1, Len(DataPrefix)) = DataPrefix

\* line.slice(6)
Payload(line) == SubSeq(line, Len(DataPrefix) + 1, Len(line))

\* A catch block that reports what JSON.parse threw through onError.
HandlerFor_ErrorOnThrow(ev) ==
    IF ev.threw THEN "onError"
    ELSE IF ev.type = "progress" THEN "onProgress"
    ELSE IF ev.type = "result" THEN "onResult"
    ELSE IF ev.type = "error" THEN "onError"
    ELSE "none"

\* A chain whose result and error branches are exchanged.
HandlerFor_Swapped(ev) ==
    IF ev.threw THEN "none"
    ELSE IF ev.type = "progress" THEN "onProgress"
    ELSE IF ev.type = "result" THEN "onError"
    ELSE IF ev.type = "error" THEN "onResult"
    ELSE "none"

\* A chain that ends in a plain else: every other type goes to onError.
HandlerFor_ElseError(ev) ==
    IF ev.threw THEN "none"
    ELSE IF ev.type = "progress" THEN "onProgress"
    ELSE IF ev.type = "result" THEN "onResult"
    ELSE "onError"

\* The handler the if / else-if chain on event.type selects, "none" when no
\* branch is taken or JSON.parse threw.
HandlerFor(ev) ==
    IF ev.threw THEN "none"
    ELSE IF ev.type = "progress" THEN "onProgress"
    ELSE IF ev.type = "result" THEN "onResult"
    ELSE IF ev.type = "error" THEN "onError"
    ELSE "none"

\* The handler invocation one line causes, as a sequence of zero or one
\* invocation.  An invocation records the handler, where it was made
\* ("frame": the for loop, "catch": the promise's catch), the payload text
\* its event was parsed from, and the error message of a catch.
LineCalls(line) ==
    IF ~StartsWithData(line) THEN << >>
    ELSE LET data == Payload(line)
             h    == HandlerFor(JSONparse(data))
         IN  IF h = "none" THEN << >>
             ELSE << [handler |-> h, src |-> "frame", data |-> data, error |-> ""] >>

\* ---- the while loop ----

\* A loop that awaits the next read while lines are still to be dispatched.
LoopPc_ReadEarly(pending) == "read"

\* Where the loop is with these lines of the chunk left: inside the for
\* loop, or, the for loop over, back at await reader.read().
LoopPc(pending) == IF pending = << >> THEN "read" ELSE "dispatch"

\* A loop that goes on reading after the reader reported done.
DonePc_Continue == "read"

\* if (done) break: the loop is left and the then-callback returns.
DonePc == "done"

\* A loop that treats what is left in the buffer at the end of the stream
\* as a last line.
EndOfStreamCalls_Flush(buf) == LineCalls(buf)

\* The invocations made when the reader reports done: none, the buffer is
\* not looked at again.
EndOfStreamCalls(buf) == << >>

\* ---- the promise's catch ----

\* A catch that reports an empty message as it is.
CatchMessage_NoFallback(err) == err.message

\* err.message || 'Stream error'
CatchMessage(err) == IF err.message # "" THEN err.message ELSE "Stream error"

\* A catch that reports every rejection, an abort included.
CatchCalls_NoNameCheck(err) ==
    << [handler |-> "onError", src |-> "catch", data |-> << >>,
        error |-> IF err.message # "" THEN err.message ELSE "Stream error"] >>

\* .catch((err) => { if (err.name !== 'AbortError') onError({...}) })
CatchCalls(err) ==
    IF err.name # "AbortError"
    THEN << [handler |-> "onError", src |-> "catch", data |-> << >>,
             error |-> CatchMessage(err)] >>
    ELSE << >>

\* ---- the playlists page: the handlers handleGenerateFrog passes ----

\* The frog streaming state after handleGenerateFrog has reset it and
\* started the job.  A state that holds an event holds the invocation that
\* brought it, in a sequence of length one; the empty sequence is null.
PageStart ==
    [frogLoading |-> TRUE, frogError |-> << >>, frogProgress |-> << >>,
     frogResult |-> << >>]

\* (progress) => { setFrogProgress(progress) }
PageOnProgress(p, c) == [p EXCEPT !.frogProgress = << c >>]

\* (error) => { setFrogLoading(false); setFrogProgress(null);
\*              setFrogError(error.error) }
PageOnError(p, c) ==
    [p EXCEPT !.frogLoading = FALSE, !.frogProgress = << >>,
              !.frogError = << c >>]

\* A result handler that shows an unsuccessful result as an error.
PageOnResult_FailAsError(p, c) ==
    IF c.data = JResultFail
    THEN [p EXCEPT !.frogLoading = FALSE, !.frogProgress = << >>,
                   !.frogError = << c >>]
    ELSE [p EXCEPT !.frogLoading = FALSE, !.frogProgress = << >>,
                   !.frogResult = << c >>]

\* (result) => { setFrogLoading(false); setFrogProgress(null);
\*               setFrogResult({...}) }
PageOnResult(p, c) ==
    [p EXCEPT !.frogLoading = FALSE, !.frogProgress = << >>,
              !.frogResult = << c >>]

\* The page after the invocations made (zero or one) have run.
PageAfter(p, made) ==
    IF made = << >> THEN p
    ELSE IF made[1].handler = "onProgress" THEN PageOnProgress(p, made[1])
    ELSE IF made[1].handler = "onResult" THEN PageOnResult(p, made[1])
    ELSE PageOnError(p, made[1])

\* The frog streaming state of a page just constructed: not loading, no
\* progress, no result, no error.
PageIdle ==
    [frogLoading |-> FALSE, frogError |-> << >>, frogProgress |-> << >>,
     frogResult |-> << >>]

\* ---- the playlists page: the track pickers ----

\* useState<AnchorTrack | null>(null)
NoTrack == 0

\* The track_ids of the tracks a picker offers.
Tracks == 1..MaxTracks

\* anchors.length < 5
MaxAnchors == 5

\* A handleSelectStart that takes whatever track it is given.
AfterSelectStart_NoCheck(start, end, t) == t

\* startTrack after handleSelectStart(track) with track.track_id = t:
\* if (endTrack?.track_id !== track.track_id) setStartTrack(track).
\* An endTrack of null has the track_id undefined, unequal to every id.
AfterSelectStart(start, end, t) == IF end # t THEN t ELSE start

\* endTrack after handleSelectEnd(track) with track.track_id = t.
AfterSelectEnd(start, end, t) == IF start # t THEN t ELSE end

\* A handleAddAnchor without the limit.
AfterAddAnchor_NoLimit(as, t) ==
    IF ~(\E i \in 1..Len(as) : as[i] = t) THEN Append(as, t) ELSE as

\* anchors after handleAddAnchor(track) with track.track_id = t.
AfterAddAnchor(as, t) ==
    IF Len(as) < MaxAnchors /\ ~(\E i \in 1..Len(as) : as[i] = t)
    THEN Append(as, t)
    ELSE as

\* anchors after handleRemoveAnchor(t): anchors.filter(a => a.track_id !== t)
AfterRemoveAnchor(as, t) == SelectSeq(as, LAMBDA a : a # t)

\* ---- RangeSlider ----

\* value: [number, number] | null -- the null
NoRange == << >>

\* The props a slider is made with: the defaults of the feature sliders
\* (min 0, step 1) and, like the tempo slider, a min above 0 with a step
\* above 1.
SliderProps ==
    { [min |-> 0, max |-> SliderMax, step |-> 1],
      [min |-> 1, max |-> SliderMax, step |-> 2] }

\* The pairs a value can hold under these props.
Ranges(p) ==
    { << lo, hi >> : lo \in p.min..p.max, hi \in p.min..p.max }

\* min <= lo, lo + step <= hi, hi <= max
InRange(p, v) ==
    /\ p.min <= v[1]
    /\ v[1] + p.step <= v[2]
    /\ v[2] <= p.max

\* A handleMinChange that takes the input as it is.
NewMin_NoClamp(v, hi, step) == v

\* Math.min(Number(e.target.value), localValue[1] - step)
NewMin(v, hi, step) == IF v <= hi - step THEN v ELSE hi - step

\* Math.max(Number(e.target.value), localValue[0] + step)
NewMax(v, lo, step) == IF v >= lo + step THEN v ELSE lo + step

\* A slider that tells its parent of every change.
OnChangeCall_Always(act, v) == << v >>

\* if (isActive) onChange(newValue): the call made, if any.
OnChangeCall(act, v) == IF act THEN << v >> ELSE << >>

\* The filter of the parent after the call made: onChange={(v) =>
\* setFilters(f => ({ ...f, energyRange: v }))}.
FilterAfter(val, call) == IF call = << >> THEN val ELSE call[1]

\* useEffect(() => { if (value !== null) { setLocalValue(value);
\* setIsActive(true) } }, [value]): localValue and isActive after the
\* effect has seen the value prop.
EffectOnValue(val, lv, act) ==
    IF val # NoRange THEN [localValue |-> val, isActive |-> TRUE]
    ELSE [localValue |-> lv, isActive |-> act]

\* ---- the transport ----

\* The responses the server side can give: the event stream of a job, or an
\* error status with its body.
Responses ==
    { [status |-> 200, body |-> s] :
        s \in {StreamJob, StreamAfterTerminal, StreamAccent, StreamNoise,
               StreamTolerance, StreamBadByte} }
    \cup { [status |-> 500, body |-> s] : s \in {BodyDetail, BodyEventOnError} }
    \cup { [status |-> 200, body |-> ProducerBody(n)] : n \in 1..MaxItems }

\* The responses given when two subscriptions are open at once.
TwoResponses ==
    { [status |-> 200, body |-> s] : s \in {StreamShort, BodyEventOnError} }

\* What a failed fetch or a failed read rejects with when nobody aborted.
NetworkErrors ==
    { [name |-> "TypeError", message |-> "Failed to fetch"],
      [name |-> "TypeError", message |-> ""] }

\* What fetch and reader.read() reject with once the signal is aborted.
AbortError == [name |-> "AbortError", message |-> "The user aborted a request."]

\* throw new Error('No response body')
NoBodyError == [name |-> "Error", message |-> "No response body"]

\* What the consumer's handler does when it is invoked: it returns, it
\* throws, or it calls the cancel function of its own subscription.
HandlerBehaviours == {"return", "throw", "cancel"}

VARIABLES
    pc,            \* where the call is: "none" (not made), "call" (the function
                   \* body runs),
                   \* "fetch" (returned, awaiting the response), "read"
                   \* (awaiting reader.read()), "dispatch" (inside the for
                   \* loop), "done" (the promise chain settled)
    aborted,       \* controller.signal.aborted
    status,        \* response.status, 0 before the response
    stream,        \* the bytes of the response body
    sent,          \* how many of them reader.read() has handed over
    decoder,       \* the TextDecoder
    buffer,        \* let buffer
    lines,         \* the lines of the current chunk the for loop has not reached
    calls,         \* the handler invocations made so far, in order
    cancels,       \* how many times the cancel function was called
    suspCalls,     \* Len(calls) at the last cancel made while the loop was
                   \* suspended in an await, -1 when there was none
    handlerCalls,  \* Len(calls) at the first cancel made from inside a
                   \* handler, -1 when there was none
    ended,         \* how the promise chain settled: "no", "eof", "failure",
                   \* "aborted"
    cuts,          \* where chunk boundaries have fallen so far: "char" (inside
                   \* a multi-byte character), "line" (inside a line)
    cancelledAt,   \* pc when the cancel function was first called, "none"
                   \* before
    throws,        \* how many times a handler has thrown
    page,          \* the frog streaming state of the playlists page
    other,         \* the second subscription: its pc, aborted, ... as a record
    active,        \* which subscription the variables above describe: 1 or 2
    startTrack,    \* the track_id of startTrack, NoTrack when it is null
    endTrack,      \* the track_id of endTrack, NoTrack when it is null
    anchors,       \* the track_ids of anchors, in order
    cancelFrogRef, \* cancelFrogRef.current: 0 when null, else the
                   \* subscription (1 or 2) whose cancel function it holds
    jobs,          \* how many jobs handleGenerateFrog has started
    props,         \* min, max and step of a RangeSlider
    isActive,      \* its isActive
    localValue,    \* its localValue, << lo, hi >>
    value,         \* its value prop, NoRange when null
    onChangeArg    \* << v >> when the last handler of the slider called
                   \* onChange(v), << >> when it called nothing

\* The variables of one subscription.
sub == << pc, aborted, status, stream, sent, decoder, buffer, lines, calls,
          cancels, suspCalls, handlerCalls, ended, cuts, cancelledAt, throws >>

\* The selections of the playlists page and its job reference.
ui == << startTrack, endTrack, anchors, cancelFrogRef, jobs >>

\* One RangeSlider and the filter of its parent.
slider == << props, isActive, localValue, value, onChangeArg >>

vars == << pc, aborted, status, stream, sent, decoder, buffer, lines, calls,
           cancels, suspCalls, handlerCalls, ended, cuts, cancelledAt, throws,
           page, other, active, startTrack, endTrack, anchors, cancelFrogRef,
           jobs, props, isActive, localValue, value, onChangeArg >>

\* A cancel function whose second call undoes the first.
AbortedAfter_Toggle(a) == ~a

\* controller.abort(): the signal is aborted, whatever it was before.
AbortedAfter(a) == TRUE

\* A fetch that was not given the controller's signal.
SignalAborted_NotPassed == FALSE

\* signal: controller.signal -- what the transport sees of the controller.
SignalAborted == aborted

\* A module in which one AbortController and one buffer serve every call.
ModuleLevel_Shared == {"controller", "buffer"}

\* Which of controller, decoder and buffer are declared outside the
\* function and so shared by all subscriptions: none, each call makes its
\* own.
ModuleLevel == {}

\* A subscription as its call begins.
NewSubscription ==
    [pc |-> "call", aborted |-> FALSE, status |-> 0, stream |-> << >>,
     sent |-> 0, decoder |-> NewDecoder, buffer |-> << >>, lines |-> << >>,
     calls |-> << >>, cancels |-> 0, suspCalls |-> -1, handlerCalls |-> -1,
     ended |-> "no", cuts |-> {}, cancelledAt |-> "none", throws |-> 0]

\* A RangeSlider as it is constructed with props p and the value prop v:
\* useState(value !== null), useState(value ?? [min, max]).
SliderInit(p, v) ==
    /\ props = p
    /\ value = v
    /\ isActive = (v # NoRange)
    /\ localValue = (IF v # NoRange THEN v ELSE << p.min, p.max >>)
    /\ onChangeArg = << >>

\* A feature slider of a page just constructed: no filter is set.
SliderIdle == SliderInit([min |-> 0, max |-> SliderMax, step |-> 1], NoRange)

\* generateFrogPlaylistStreaming is being called by handleGenerateFrog: the
\* controller is made and fetch is started.  The page has a start and an
\* end track, handleGenerateFrog has reset the streaming state, and
\* cancelFrogRef.current is still to be assigned.
Init ==
    /\ pc = "call"
    /\ aborted = FALSE
    /\ status = 0
    /\ stream = << >>
    /\ sent = 0
    /\ decoder = NewDecoder
    /\ buffer = << >>
    /\ lines = << >>
    /\ calls = << >>
    /\ cancels = 0
    /\ suspCalls = -1
    /\ handlerCalls = -1
    /\ ended = "no"
    /\ cuts = {}
    /\ cancelledAt = "none"
    /\ throws = 0
    /\ page = PageStart
    /\ other = NewSubscription
    /\ active = 1
    /\ startTrack = 1
    /\ endTrack = 2
    /\ anchors = << >>
    /\ cancelFrogRef = 0
    /\ jobs = 1
    /\ SliderIdle

\* What a step of this subscription does to the other one: nothing, but for
\* what the two share.
OtherSubscription ==
    /\ other' = [other EXCEPT
                    !.aborted = IF "controller" \in ModuleLevel
                                THEN aborted' ELSE @,
                    !.decoder = IF "decoder" \in ModuleLevel
                                THEN decoder' ELSE @,
                    !.buffer = IF "buffer" \in ModuleLevel
                               THEN buffer' ELSE @]
    /\ active' = active

\* return () => controller.abort(): the call returns the cancel function
\* before any callback of the promise chain can run, and handleGenerateFrog
\* stores it in cancelFrogRef.current.
Return ==
    /\ pc = "call"
    /\ pc' = "fetch"
    /\ UNCHANGED << aborted, status, stream, sent, decoder, buffer, lines,
                    calls, cancels, suspCalls, handlerCalls, ended, cuts,
                    cancelledAt, throws, page >>
    /\ OtherSubscription
    /\ cancelFrogRef' = active
    /\ UNCHANGED << startTrack, endTrack, anchors, jobs, slider >>

\* The promise chain rejects with err: the catch runs and the chain settles.
Settle(err) ==
    /\ calls' = calls \o CatchCalls(err)
    /\ page' = PageAfter(page, CatchCalls(err))
    /\ pc' = "done"
    /\ ended' = IF err = AbortError THEN "aborted" ELSE "failure"

\* fetch resolves with a response that has a body: the reader, the decoder
\* and the empty buffer are made and the first read is awaited.
FetchResponse(r) ==
    /\ pc = "fetch"
    /\ ~SignalAborted
    /\ status' = r.status
    /\ stream' = r.body
    /\ decoder' = NewDecoder
    /\ buffer' = << >>
    /\ pc' = "read"
    /\ UNCHANGED << aborted, sent, lines, calls, cancels, suspCalls,
                    handlerCalls, ended, cuts, cancelledAt, throws, page >>
    /\ OtherSubscription
    /\ UNCHANGED << ui, slider >>

\* fetch resolves with a response without a body: the then-callback throws.
FetchNoBody(st) ==
    /\ pc = "fetch"
    /\ ~SignalAborted
    /\ status' = st
    /\ Settle(NoBodyError)
    /\ UNCHANGED << aborted, stream, sent, decoder, buffer, lines, cancels,
                    suspCalls, handlerCalls, cuts, cancelledAt, throws >>
    /\ OtherSubscription
    /\ UNCHANGED << ui, slider >>

\* fetch rejects: with an AbortError when the signal is aborted, with a
\* network error otherwise.
FetchReject(err) ==
    /\ pc = "fetch"
    /\ IF SignalAborted THEN err = AbortError ELSE err \in NetworkErrors
    /\ Settle(err)
    /\ UNCHANGED << aborted, status, stream, sent, decoder, buffer, lines,
                    cancels, suspCalls, handlerCalls, cuts, cancelledAt, throws >>
    /\ OtherSubscription
    /\ UNCHANGED << ui, slider >>

\* reader.read() resolves with the next n bytes: they are decoded and
\* appended to the buffer, the buffer is split, and the for loop starts.
ReadChunk(n) ==
    /\ pc = "read"
    /\ ~SignalAborted
    /\ n \in 1..(Len(stream) - sent)
    /\ LET d    == DecodeChunk(decoder, SubSeq(stream, sent + 1, sent + n))
           text == buffer \o d.text
           ls   == CompleteLines(text)
       IN  /\ decoder' = d.st
           /\ buffer' = Residual(text)
           /\ lines' = ls
           /\ pc' = LoopPc(ls)
           /\ cuts' = cuts \cup (IF d.st.needed > 0 THEN {"char"} ELSE {})
                          \cup (IF Residual(text) # << >> THEN {"line"} ELSE {})
    /\ sent' = sent + n
    /\ UNCHANGED << aborted, status, stream, calls, cancels, suspCalls,
                    handlerCalls, ended, cancelledAt, throws, page >>
    /\ OtherSubscription
    /\ UNCHANGED << ui, slider >>

\* A for loop without a try block of its own: what a handler throws leaves
\* the loop and reaches the catch of the promise chain.
ThrowOutcome_Propagates(pending) ==
    [pc |-> "done", ended |-> "failure",
     calls |-> CatchCalls([name |-> "Error", message |-> "handler failed"])]

\* What follows when the handler invoked for a line throws, with these lines
\* of the chunk left: the catch block of the iteration swallows it, as it
\* does a SyntaxError of JSON.parse, and the for loop goes on.
ThrowOutcome(pending) ==
    [pc |-> LoopPc(pending), ended |-> "no", calls |-> << >>]

\* One iteration of the for loop: the line is parsed and its handler, if it
\* has one, is invoked; the handler does beh.  What a handler throws is
\* caught by the catch block of the iteration.
DispatchLine(beh) ==
    /\ pc = "dispatch"
    /\ lines # << >>
    /\ LET made == LineCalls(Head(lines))
           out  == ThrowOutcome(Tail(lines))
       IN  /\ made = << >> => beh = "return"
           /\ IF beh = "throw"
              THEN /\ calls' = calls \o made \o out.calls
                   /\ page' = PageAfter(PageAfter(page, made), out.calls)
                   /\ pc' = out.pc
                   /\ ended' = out.ended
                   /\ throws' = throws + 1
              ELSE /\ calls' = calls \o made
                   /\ page' = PageAfter(page, made)
                   /\ pc' = LoopPc(Tail(lines))
                   /\ UNCHANGED << ended, throws >>
           /\ IF beh = "cancel"
              THEN /\ cancels < MaxCancels
                   /\ cancels' = cancels + 1
                   /\ aborted' = AbortedAfter(aborted)
                   /\ handlerCalls' = IF handlerCalls = -1
                                      THEN Len(calls) + Len(made)
                                      ELSE handlerCalls
                   /\ cancelledAt' = IF cancelledAt = "none"
                                     THEN pc ELSE cancelledAt
              ELSE UNCHANGED << cancels, aborted, handlerCalls, cancelledAt >>
    /\ lines' = Tail(lines)
    /\ UNCHANGED << status, stream, sent, decoder, buffer, suspCalls, cuts >>
    /\ OtherSubscription
    /\ UNCHANGED << ui, slider >>

\* reader.read() resolves with done: the loop breaks and the chain settles.
\* A body that had closed before an abort still reads as done.
ReadDone ==
    /\ pc = "read"
    /\ sent = Len(stream)
    /\ pc' = DonePc
    /\ ended' = "eof"
    /\ calls' = calls \o EndOfStreamCalls(buffer)
    /\ page' = PageAfter(page, EndOfStreamCalls(buffer))
    /\ UNCHANGED << aborted, status, stream, sent, decoder, buffer, lines,
                    cancels, suspCalls, handlerCalls, cuts, cancelledAt, throws >>
    /\ OtherSubscription
    /\ UNCHANGED << ui, slider >>

\* reader.read() rejects: with an AbortError when the signal is aborted,
\* with a network error otherwise.
ReadReject(err) ==
    /\ pc = "read"
    /\ IF SignalAborted THEN err = AbortError ELSE err \in NetworkErrors
    /\ Settle(err)
    /\ UNCHANGED << aborted, status, stream, sent, decoder, buffer, lines,
                    cancels, suspCalls, handlerCalls, cuts, cancelledAt, throws >>
    /\ OtherSubscription
    /\ UNCHANGED << ui, slider >>

\* The caller calls the returned function, () => controller.abort(), while
\* no handler is running: during an await, or after the chain settled.
Cancel ==
    /\ pc \in {"fetch", "read", "done"}
    /\ cancels < MaxCancels
    /\ cancels' = cancels + 1
    /\ aborted' = AbortedAfter(aborted)
    /\ suspCalls' = IF pc = "done" THEN suspCalls ELSE Len(calls)
    /\ cancelledAt' = IF cancelledAt = "none" THEN pc ELSE cancelledAt
    /\ UNCHANGED << pc, status, stream, sent, decoder, buffer, lines, calls,
                    handlerCalls, ended, cuts, throws, page >>
    /\ OtherSubscription
    /\ UNCHANGED << ui, slider >>

\* The event loop turns to the other subscription.  It does so only between
\* two callbacks: never inside the call, never inside the for loop.
Switch ==
    /\ pc \notin {"call", "dispatch"}
    /\ active' = 3 - active
    /\ other' = [pc |-> pc, aborted |-> aborted, status |-> status,
                 stream |-> stream, sent |-> sent, decoder |-> decoder,
                 buffer |-> buffer, lines |-> lines, calls |-> calls,
                 cancels |-> cancels, suspCalls |-> suspCalls,
                 handlerCalls |-> handlerCalls, ended |-> ended,
                 cuts |-> cuts, cancelledAt |-> cancelledAt,
                 throws |-> throws]
    /\ pc' = other.pc
    /\ aborted' = other.aborted
    /\ status' = other.status
    /\ stream' = other.stream
    /\ sent' = other.sent
    /\ decoder' = other.decoder
    /\ buffer' = other.buffer
    /\ lines' = other.lines
    /\ calls' = other.calls
    /\ cancels' = other.cancels
    /\ suspCalls' = other.suspCalls
    /\ handlerCalls' = other.handlerCalls
    /\ ended' = other.ended
    /\ cuts' = other.cuts
    /\ cancelledAt' = other.cancelledAt
    /\ throws' = other.throws
    /\ UNCHANGED << page, ui, slider >>

\* One subscription.
Next ==
    \/ Return
    \/ \E r \in Responses : FetchResponse(r)
    \/ \E st \in {200, 204} : FetchNoBody(st)
    \/ \E err \in NetworkErrors \cup {AbortError} : FetchReject(err)
    \/ \E n \in 1..Len(stream) : ReadChunk(n)
    \/ \E beh \in HandlerBehaviours : DispatchLine(beh)
    \/ ReadDone
    \/ \E err \in NetworkErrors \cup {AbortError} : ReadReject(err)
    \/ Cancel

Spec == Init /\ [][Next]_vars

\* Two subscriptions open at once, on short bodies that arrive in chunks of
\* TwoChunk bytes or all at once.
NextTwo ==
    \/ Return
    \/ \E r \in TwoResponses : FetchResponse(r)
    \/ \E err \in NetworkErrors \cup {AbortError} : FetchReject(err)
    \/ \E n \in {TwoChunk, Len(stream) - sent} : ReadChunk(n)
    \/ \E beh \in HandlerBehaviours : DispatchLine(beh)
    \/ ReadDone
    \/ \E err \in NetworkErrors \cup {AbortError} : ReadReject(err)
    \/ Cancel
    \/ Switch

SpecTwo == Init /\ [][NextTwo]_vars

TypeOK ==
    /\ pc \in {"none", "call", "fetch", "read", "dispatch", "done"}
    /\ aborted \in BOOLEAN
    /\ sent \in 0..Len(stream)
    /\ cancels \in 0..MaxCancels
    /\ ended \in {"no", "eof", "failure", "aborted"}
    /\ (pc = "done") = (ended # "no")
    /\ (pc = "dispatch") = (lines # << >>)
    /\ active \in {1, 2}
    /\ throws \in 0..Len(calls)
    /\ cancelFrogRef \in {0, 1, 2}
    /\ isActive \in BOOLEAN

\* ---- the playlists page: selections ----

\* The subscription the plain variables describe, as a record.
Current ==
    [pc |-> pc, aborted |-> aborted, status |-> status, stream |-> stream,
     sent |-> sent, decoder |-> decoder, buffer |-> buffer, lines |-> lines,
     calls |-> calls, cancels |-> cancels, suspCalls |-> suspCalls,
     handlerCalls |-> handlerCalls, ended |-> ended, cuts |-> cuts,
     cancelledAt |-> cancelledAt, throws |-> throws]

\* The place of a subscription when generateFrogPlaylistStreaming has not
\* been called for it.
NoSubscription == [NewSubscription EXCEPT !.pc = "none"]

\* The plain variables describe subscription s.
SubscriptionIs(s) ==
    /\ pc = s.pc
    /\ aborted = s.aborted
    /\ status = s.status
    /\ stream = s.stream
    /\ sent = s.sent
    /\ decoder = s.decoder
    /\ buffer = s.buffer
    /\ lines = s.lines
    /\ calls = s.calls
    /\ cancels = s.cancels
    /\ suspCalls = s.suspCalls
    /\ handlerCalls = s.handlerCalls
    /\ ended = s.ended
    /\ cuts = s.cuts
    /\ cancelledAt = s.cancelledAt
    /\ throws = s.throws

\* PlaylistsPage as it is constructed: no track picked, no anchors, no
\* job, nothing of the streaming state set, no audio filter set.
InitPage ==
    /\ SubscriptionIs(NoSubscription)
    /\ page = PageIdle
    /\ other = NoSubscription
    /\ active = 1
    /\ startTrack = NoTrack
    /\ endTrack = NoTrack
    /\ anchors = << >>
    /\ cancelFrogRef = 0
    /\ jobs = 0
    /\ SliderIdle

\* What the handlers of the pickers leave alone.
JobsUnchanged ==
    UNCHANGED << sub, page, other, active, cancelFrogRef, jobs, slider >>

\* handleSelectStart(track), track.track_id = t
HandleSelectStart(t) ==
    /\ startTrack' = AfterSelectStart(startTrack, endTrack, t)
    /\ UNCHANGED << endTrack, anchors >>
    /\ JobsUnchanged

\* handleSelectEnd(track), track.track_id = t
HandleSelectEnd(t) ==
    /\ endTrack' = AfterSelectEnd(startTrack, endTrack, t)
    /\ UNCHANGED << startTrack, anchors >>
    /\ JobsUnchanged

\* onClick={() => setStartTrack(null)}, shown while a start track is set
ClearStart ==
    /\ startTrack # NoTrack
    /\ startTrack' = NoTrack
    /\ UNCHANGED << endTrack, anchors >>
    /\ JobsUnchanged

\* onClick={() => setEndTrack(null)}, shown while an end track is set
ClearEnd ==
    /\ endTrack # NoTrack
    /\ endTrack' = NoTrack
    /\ UNCHANGED << startTrack, anchors >>
    /\ JobsUnchanged

\* handleAddAnchor(track), track.track_id = t
HandleAddAnchor(t) ==
    /\ anchors' = AfterAddAnchor(anchors, t)
    /\ UNCHANGED << startTrack, endTrack >>
    /\ JobsUnchanged

\* handleRemoveAnchor(t)
HandleRemoveAnchor(t) ==
    /\ anchors' = AfterRemoveAnchor(anchors, t)
    /\ UNCHANGED << startTrack, endTrack >>
    /\ JobsUnchanged

\* The pickers of the page, each handler called in an event of its own, so
\* that it sees the state the handler before it has set.
NextPicker ==
    \/ \E t \in Tracks : HandleSelectStart(t)
    \/ \E t \in Tracks : HandleSelectEnd(t)
    \/ ClearStart
    \/ ClearEnd
    \/ \E t \in Tracks : HandleAddAnchor(t)
    \/ \E t \in Tracks : HandleRemoveAnchor(t)

SpecPicker == InitPage /\ [][NextPicker]_vars

\* ---- RangeSlider ----

\* What the handlers of a slider leave alone.
PageUnchanged == UNCHANGED << sub, page, other, active, ui, props >>

\* The slider after a handler has set localValue to lv and isActive to act
\* and has made the onChange call `call`: the parent stores the argument in
\* its filter, and the effect runs if the value prop has changed.
SliderAfter(lv, act, call) ==
    LET val == FilterAfter(value, call)
        eff == IF val # value THEN EffectOnValue(val, lv, act)
               ELSE [localValue |-> lv, isActive |-> act]
    IN  /\ onChangeArg' = call
        /\ value' = val
        /\ localValue' = eff.localValue
        /\ isActive' = eff.isActive

\* handleToggle
HandleToggle ==
    /\ IF isActive
       THEN SliderAfter(localValue, FALSE, << NoRange >>)
       ELSE SliderAfter(localValue, TRUE, << localValue >>)
    /\ PageUnchanged

\* handleMinChange(e), Number(e.target.value) = v
HandleMinChange(v) ==
    /\ LET newValue == << NewMin(v, localValue[2], props.step), localValue[2] >>
       IN  SliderAfter(newValue, isActive, OnChangeCall(isActive, newValue))
    /\ PageUnchanged

\* handleMaxChange(e), Number(e.target.value) = v
HandleMaxChange(v) ==
    /\ LET newValue == << localValue[1], NewMax(v, localValue[1], props.step) >>
       IN  SliderAfter(newValue, isActive, OnChangeCall(isActive, newValue))
    /\ PageUnchanged

\* "Clear all audio filters" of the parent, shown while a filter is set:
\* the value prop becomes null, which the effect ignores.
ClearAll ==
    /\ value # NoRange
    /\ value' = NoRange
    /\ UNCHANGED << isActive, localValue, onChangeArg >>
    /\ PageUnchanged

\* A slider made with any of the props, with no value or with a value in
\* range, on a page just constructed.
InitSlider ==
    /\ SubscriptionIs(NoSubscription)
    /\ page = PageIdle
    /\ other = NoSubscription
    /\ active = 1
    /\ startTrack = NoTrack
    /\ endTrack = NoTrack
    /\ anchors = << >>
    /\ cancelFrogRef = 0
    /\ jobs = 0
    /\ \E p \in SliderProps :
         \E v \in {NoRange} \cup { r \in Ranges(p) : InRange(p, r) } :
            SliderInit(p, v)

\* The inputs of the slider give values from min to max.
NextSlider ==
    \/ HandleToggle
    \/ \E v \in props.min..props.max : HandleMinChange(v)
    \/ \E v \in props.min..props.max : HandleMaxChange(v)
    \/ ClearAll

SpecSlider == InitSlider /\ [][NextSlider]_vars

\* ---- the playlists page: jobs ----

\* The responses given to the jobs of the page: a result, an error event,
\* and a progress event after which the body ends.
PageResponses ==
    { [status |-> 200, body |-> s] :
        s \in {StreamShort, StreamError, BodyEventOnError} }

\* The tracks picked as start and end of the jobs.
JobTracks == {1, 2}

\* A handleGenerateFrog that starts the new job without cancelling the one
\* before.
CancelPrevious_Skipped(s) == s

\* if (cancelFrogRef.current) cancelFrogRef.current(): subscription s after
\* its cancel function was called between two of its callbacks.
CancelPrevious(s) ==
    [s EXCEPT !.aborted = AbortedAfter(@),
              !.cancels = @ + 1,
              !.suspCalls = IF s.pc = "done" THEN @ ELSE Len(s.calls),
              !.cancelledAt = IF @ = "none" THEN s.pc ELSE @]

\* handleGenerateFrog, called in an event of its own (no callback of a
\* subscription is running) with both tracks set: the job cancelFrogRef
\* refers to is cancelled, the streaming state is reset,
\* generateFrogPlaylistStreaming is called and what it returns is stored in
\* cancelFrogRef.current.  The plain variables describe the new
\* subscription from here on and `other` the one just cancelled, whose
\* place the subscription cancelled before it has left, settled.
HandleGenerateFrog ==
    /\ startTrack # NoTrack
    /\ endTrack # NoTrack
    /\ jobs < MaxJobs
    /\ pc \notin {"call", "dispatch"}
    /\ cancelFrogRef \in {0, active}
    /\ IF cancelFrogRef = 0
       THEN UNCHANGED << other, active >>
       ELSE /\ other.pc \in {"none", "done"}
            /\ other' = CancelPrevious(Current)
            /\ active' = 3 - active
    /\ pc' = "fetch"
    /\ aborted' = NewSubscription.aborted
    /\ status' = NewSubscription.status
    /\ stream' = NewSubscription.stream
    /\ sent' = NewSubscription.sent
    /\ decoder' = NewSubscription.decoder
    /\ buffer' = NewSubscription.buffer
    /\ lines' = NewSubscription.lines
    /\ calls' = NewSubscription.calls
    /\ cancels' = NewSubscription.cancels
    /\ suspCalls' = NewSubscription.suspCalls
    /\ handlerCalls' = NewSubscription.handlerCalls
    /\ ended' = NewSubscription.ended
    /\ cuts' = NewSubscription.cuts
    /\ cancelledAt' = NewSubscription.cancelledAt
    /\ throws' = NewSubscription.throws
    /\ page' = PageStart
    /\ cancelFrogRef' = active'
    /\ jobs' = jobs + 1
    /\ UNCHANGED << startTrack, endTrack, anchors, slider >>

\* The page with its jobs: the user picks tracks and starts jobs, the
\* transport of each job delivers, fails or ends, and the handlers of the
\* page, which return, run.
NextPage ==
    \/ \E t \in JobTracks : HandleSelectStart(t)
    \/ \E t \in JobTracks : HandleSelectEnd(t)
    \/ ClearStart
    \/ ClearEnd
    \/ HandleGenerateFrog
    \/ \E r \in PageResponses : FetchResponse(r)
    \/ \E err \in NetworkErrors \cup {AbortError} : FetchReject(err)
    \/ \E n \in {TwoChunk, Len(stream) - sent} : ReadChunk(n)
    \/ DispatchLine("return")
    \/ ReadDone
    \/ \E err \in NetworkErrors \cup {AbortError} : ReadReject(err)
    \/ Switch

SpecPage == InitPage /\ [][NextPage]_vars

\* The job cancelFrogRef refers to, and the one started before it.
LatestJob == IF cancelFrogRef = active THEN Current ELSE other
SupersededJob == IF cancelFrogRef = active THEN other ELSE Current

\* ======================= properties =======================

\* The invocations made by the for loop, and those made by the catch.
FrameCalls == SelectSeq(calls, LAMBDA c : c.src = "frame")
Reported == SelectSeq(calls, LAMBDA c : c.src = "catch")

IsTerminal(c) == c.handler \in {"onResult", "onError"}
TerminalCount == Len(SelectSeq(calls, IsTerminal))

IsPrefix(s, t) == Len(s) <= Len(t) /\ SubSeq(t, 1, Len(s)) = s

RECURSIVE CallsOfLines(_)
CallsOfLines(ls) ==
    IF ls = << >> THEN << >> ELSE LineCalls(Head(ls)) \o CallsOfLines(Tail(ls))

\* The invocations the read loop makes when bytes arrive as one chunk.
WholeCalls(bytes) ==
    CallsOfLines(CompleteLines(DecodeChunk(NewDecoder, bytes).text))

\* Len(calls) when the cancel function was first called before the chain
\* settled, -1 when it was not.
CancelPoint == IF handlerCalls # -1 THEN handlerCalls ELSE suspCalls

\* C1 (as claimed): once a frame of type result or error has been
\* dispatched, no handler is invoked for a later frame of the stream.
C1_TerminalExclusivity ==
    \A i, k \in 1..Len(calls) :
        (i < k /\ calls[i].src = "frame" /\ IsTerminal(calls[i]))
            => calls[k].src # "frame"

\* C2: after the cancel function was called while the read loop was
\* suspended in an await, no handler is invoked any more, whatever the
\* server still had to send.
C2_CancellationSuppression ==
    suspCalls # -1 => Len(calls) = suspCalls

\* Cancelled during an await after some frame was dispatched, with a
\* terminal frame of the body never handed over.
C2_Witness ==
    /\ suspCalls >= 1
    /\ ended = "aborted"
    /\ Len(calls) < Len(WholeCalls(stream))
    /\ IsTerminal(WholeCalls(stream)[Len(WholeCalls(stream))])

\* C3 (as claimed): a subscription never cancelled whose transport has
\* ended saw exactly one of onResult / onError; one cancelled before any
\* terminal frame was dispatched saw none.
C3_ExactlyOneOutcome ==
    /\ (pc = "done" /\ cancels = 0) => TerminalCount = 1
    /\ ( /\ CancelPoint # -1
         /\ \A i \in 1..CancelPoint : ~IsTerminal(calls[i]) )
       => TerminalCount = 0

\* C4: however the bytes of a body were cut into chunks, a read loop that
\* reached the end of the stream has made exactly the invocations, handler
\* and payload, it makes when the same bytes arrive as one chunk.
C4_ChunkBoundaryInvariance ==
    ended = "eof" => calls = WholeCalls(stream)

\* The end of a body was reached whose chunks were cut inside a multi-byte
\* character and inside a line, and a frame of it was dispatched.
C4_Witness ==
    /\ ended = "eof"
    /\ cuts = {"char", "line"}
    /\ Len(calls) >= 1

\* C5: the invocations made for frames are, at every moment, a prefix of
\* the frames of the byte stream in stream order: none early, none twice.
C5_Ordering ==
    IsPrefix(FrameCalls, WholeCalls(stream))

\* Three frames with different payloads dispatched from chunks cut inside
\* lines.
C5_Witness ==
    /\ Len(FrameCalls) >= 3
    /\ "line" \in cuts
    /\ \A i, k \in 1..Len(FrameCalls) : i # k => FrameCalls[i] # FrameCalls[k]

\* C6: when the fetch or a read failed on a subscription whose cancel
\* function was not called, the catch invoked onError exactly once, with a
\* non-empty message, and that invocation is the last one.
C6_TransportFailureOnce ==
    (ended = "failure" /\ cancels = 0)
        => /\ Len(Reported) = 1
           /\ calls[Len(calls)] = Reported[1]
           /\ Reported[1].handler = "onError"
           /\ Reported[1].error # ""

\* A read failed, with an error that has no message, after a frame had been
\* dispatched.
C6_Witness ==
    /\ ended = "failure"
    /\ cancels = 0
    /\ Len(FrameCalls) >= 1
    /\ calls[Len(calls)].error = "Stream error"

\* C7 (as claimed): a response with a status outside 200..299, not
\* cancelled, has none of its body dispatched and ends with exactly one
\* onError.
C7_Non2xxIsFailure ==
    (status # 0 /\ status \notin 200..299 /\ cancels = 0)
        => /\ FrameCalls = << >>
           /\ pc = "done" => Len(SelectSeq(calls, LAMBDA c : c.handler = "onError")) = 1

\* C8: a fetch or read that rejected because the cancel function aborted
\* the exchange is reported to no handler.
C8_AbortIsSilent ==
    ended = "aborted" => Reported = << >>

\* A read was pending when the exchange was aborted, after a frame had been
\* dispatched, and it rejected.
C8_Witness ==
    /\ ended = "aborted"
    /\ status = 200
    /\ Len(calls) >= 1

\* C9 (as claimed): once the cancel function is called from inside a
\* handler, none of the lines of the chunk still pending is dispatched.
C9_CancelClosesDispatch ==
    handlerCalls # -1 => Len(calls) = handlerCalls

\* C10: a call of the cancel function on a signal already aborted changes
\* nothing at all; a call after the chain settled changes nothing but the
\* signal; and a settled chain never invokes a handler again.
C10_IdempotentCancel ==
    [][ /\ (cancels' = cancels + 1 /\ pc # "dispatch" /\ aborted)
           => UNCHANGED << pc, aborted, status, stream, sent, decoder,
                           buffer, lines, calls, ended >>
        /\ pc = "done"
           => UNCHANGED << pc, status, stream, sent, decoder, buffer, lines,
                           calls, ended >> ]_vars

\* The cancel function was called at least twice on a subscription that
\* ended at the end of the stream with a terminal event.
C10_Witness ==
    /\ cancels >= 2
    /\ ended = "eof"
    /\ TerminalCount >= 1

\* The lines a producer or a proxy may insert between events: a blank
\* line, a comment line, text without the prefix, a payload that is not JSON.
InsertedLines == { << >>, LineComment, LineNotJson, LineBroken }

\* The LF-terminated lines of a body that are not inserted lines.
ValidLines(bytes) ==
    SelectSeq(CompleteLines(DecodeChunk(NewDecoder, bytes).text),
              LAMBDA l : l \notin InsertedLines)

\* C11: the invocations made for a body are those of its lines without the
\* inserted ones, in order and in number; no invocation is made for an
\* inserted line, and the lines after one are still dispatched.
C11_Tolerance ==
    /\ IsPrefix(FrameCalls, CallsOfLines(ValidLines(stream)))
    /\ ended = "eof" => calls = CallsOfLines(ValidLines(stream))
    /\ \A i \in 1..Len(FrameCalls) :
          DataPrefix \o FrameCalls[i].data \notin InsertedLines

\* The end of a body with three kinds of inserted lines between its two
\* events was reached, in chunks cut inside lines.
C11_Witness ==
    /\ ended = "eof"
    /\ stream = StreamTolerance
    /\ "line" \in cuts
    /\ Len(calls) = 2

\* The handler that belongs to an event type.
ExpectedHandler(type) ==
    CASE type = "progress" -> "onProgress"
      [] type = "result" -> "onResult"
      [] type = "error" -> "onError"

\* C12: an iteration of the for loop on a line that parses to an event of
\* type progress, result or error invokes the handler of that type, once,
\* with that event, and nothing else; on any other line it invokes nothing.
C12_OneHandlerPerEvent ==
    [][ pc = "dispatch" =>
          LET line == Head(lines)
              ev   == JSONparse(Payload(line))
          IN  IF /\ StartsWithData(line)
                 /\ ~ev.threw
                 /\ ev.type \in {"progress", "result", "error"}
              THEN calls' = Append(calls,
                                   [handler |-> ExpectedHandler(ev.type),
                                    src |-> "frame", data |-> Payload(line),
                                    error |-> ""])
              ELSE calls' = calls ]_vars

\* A body with a payload of unknown type and one progress event was
\* dispatched to its last line: one invocation.
C12_Witness ==
    /\ stream = StreamNoise
    /\ sent = Len(stream)
    /\ pc = "read"
    /\ Len(calls) = 1
    /\ calls[1].handler = "onProgress"

\* C13: no handler is invoked while the call has not returned, and none at
\* all once the cancel function was called before the response arrived.
C13_CancelReturnedFirst ==
    /\ pc = "call" => calls = << >>
    /\ cancelledAt = "fetch" => calls = << >>

\* The cancel function was called before the response and the fetch has
\* rejected.
C13_Witness ==
    /\ cancelledAt = "fetch"
    /\ ended = "aborted"
    /\ status = 0

\* C14: with two subscriptions open, a step of one (its cancel, its
\* failure, its frames) changes nothing of the other, and each has
\* dispatched a prefix of the events of its own body.
C14_Independent ==
    /\ [](/\ IsPrefix(FrameCalls, WholeCalls(stream))
          /\ IsPrefix(SelectSeq(other.calls, LAMBDA c : c.src = "frame"),
                      WholeCalls(other.stream)))
    /\ [][active' = active => other' = other]_vars

\* One subscription was cancelled while it awaited a read, the other one,
\* on another body, went on to the end of its stream.
C14_Witness ==
    /\ other.cancelledAt = "read"
    /\ other.ended = "aborted"
    /\ ended = "eof"
    /\ stream # other.stream
    /\ Len(calls) = 1

\* The position of the last line break of a body, 0 when it has none.
LastLF(bytes) ==
    IF \E i \in 1..Len(bytes) : bytes[i] = LF
    THEN CHOOSE i \in 1..Len(bytes) :
            bytes[i] = LF /\ \A k \in (i + 1)..Len(bytes) : bytes[k] # LF
    ELSE 0

\* C15: at the end of the stream the invocations made are those of the
\* body up to its last line break; what follows it causes none.
C15_ResidualDropped ==
    ended = "eof" => calls = WholeCalls(SubSeq(stream, 1, LastLF(stream)))

\* The stream ended with a complete, well-formed result payload in the
\* buffer that no line break had ended.
C15_Witness ==
    /\ ended = "eof"
    /\ LineCalls(buffer) # << >>
    /\ LineCalls(buffer)[1].handler = "onResult"

\* C16: onError is invoked only for a frame whose payload parsed to an
\* event of type error, or by the catch for a failed fetch or read of a
\* subscription not cancelled before; and an iteration of the for loop
\* never settles the chain.
C16_OnErrorCauses ==
    /\ [](\A i \in 1..Len(calls) :
            calls[i].handler = "onError" =>
               \/ /\ calls[i].src = "frame"
                  /\ ~JSONparse(calls[i].data).threw
                  /\ JSONparse(calls[i].data).type = "error"
               \/ /\ calls[i].src = "catch"
                  /\ i = Len(calls)
                  /\ ended = "failure"
                  /\ cancelledAt \in {"none", "done"})
    /\ [][pc = "dispatch"
             => (pc' \in {"dispatch", "read"} /\ ended' = ended)]_vars

\* A body with a comment line, a broken payload and an unknown type was
\* dispatched to its end with one onProgress, and then the read failed.
C16_Witness ==
    /\ stream = StreamNoise
    /\ sent = Len(stream)
    /\ ended = "failure"
    /\ Len(calls) = 2
    /\ calls[1].handler = "onProgress"

\* C17: whenever the loop is not inside the for loop no line of a chunk is
\* left to dispatch, and a read is answered only then: the next chunk is
\* asked for after the handler of the last line has returned.
C17_NoReadWhilePending ==
    /\ [](pc # "dispatch" => lines = << >>)
    /\ [][(sent' # sent \/ ended' # ended)
             => (pc \in {"fetch", "read"} /\ lines = << >>)]_vars

\* A chunk with several events was dispatched to its last line and the
\* next read is awaited.
C17_Witness ==
    /\ pc = "read"
    /\ cuts = {}
    /\ Len(calls) >= 2
    /\ sent < Len(stream)

\* How many line breaks a body has.
CountLF(bytes) == Cardinality({i \in 1..Len(bytes) : bytes[i] = LF})

\* C18: once the reader has reported done nothing of the subscription
\* changes any more (no read, no invocation), and the invocations made for
\* frames never outnumber the lines of the body.
C18_LoopEndsAtEof ==
    /\ [](Len(FrameCalls) <= CountLF(stream))
    /\ [][ended = "eof" => UNCHANGED << pc, sent, decoder, buffer, lines,
                                       calls, ended, page >>]_vars

\* The three events of a job were dispatched and the stream ended, with no
\* cancel.
C18_Witness ==
    /\ ended = "eof"
    /\ cancels = 0
    /\ stream = StreamJob
    /\ Len(calls) = 3

\* C19: the iteration of the for loop on a result event with success false
\* invokes onResult with it, and the page stores it as frogResult and
\* clears frogLoading while frogError stays what it was.
C19_FailedResultIsResult ==
    [][ (pc = "dispatch" /\ Head(lines) = DataPrefix \o JResultFail) =>
          LET c == [handler |-> "onResult", src |-> "frame",
                    data |-> JResultFail, error |-> ""]
          IN  /\ calls' = Append(calls, c)
              /\ page'.frogResult = << c >>
              /\ page'.frogLoading = FALSE
              /\ page'.frogError = page.frogError ]_vars

\* The page shows an unsuccessful result, is no longer loading and shows
\* no error.
C19_Witness ==
    /\ page.frogResult # << >>
    /\ page.frogResult[1].data = JResultFail
    /\ page.frogLoading = FALSE
    /\ page.frogError = << >>

\* A body has a byte that no UTF-8 sequence contains.
HasBadByte(bytes) ==
    \E i \in 1..Len(bytes) : bytes[i] \in ({192, 193} \cup 245..255)

\* C20 (as claimed): a subscription, not cancelled, that was handed a byte
\* that cannot be decoded dispatches no frame built from it and ends with
\* one onError from the catch.
C20_DecodeErrorsFail ==
    (cancels = 0 /\ HasBadByte(SubSeq(stream, 1, sent)))
        => /\ \A i \in 1..Len(FrameCalls) :
                 \A k \in 1..Len(FrameCalls[i].data) :
                     FrameCalls[i].data[k] # Replacement
           /\ pc = "done" => (ended = "failure" /\ Len(Reported) = 1)

C22_HandlerThrowSwallowed ==
    /\ [][throws' = throws + 1 =>
            /\ calls' = calls \o LineCalls(Head(lines))
            /\ lines' = Tail(lines)
            /\ pc' = (IF Tail(lines) = << >> THEN "read" ELSE "dispatch")
            /\ ended' = "no" ]_vars
    /\ []((ended = "eof" /\ throws > 0) => calls = WholeCalls(stream))

\* A handler threw on the first event of a job whose body came in several
\* chunks, and the two later events were still dispatched.
C22_Witness ==
    /\ throws >= 1
    /\ cuts # {}
    /\ ended = "eof"
    /\ stream = StreamJob
    /\ Len(calls) = 3
    /\ Reported = << >>

\* The text the decoder has produced from the bytes handed over so far.
TextSoFar == DecodeChunk(NewDecoder, SubSeq(stream, 1, sent)).text

\* C28: whenever the loop is suspended in await reader.read(), the buffer
\* holds no line break and is the text decoded so far after its last line
\* break, and the invocations made for frames are those of the complete
\* lines of that text, each line once.
C28_BufferInvariant ==
    pc = "read" =>
        /\ \A i \in 1..Len(buffer) : buffer[i] # LF
        /\ buffer = SubSeq(TextSoFar, LastLF(TextSoFar) + 1, Len(TextSoFar))
        /\ FrameCalls = CallsOfLines(CompleteLines(TextSoFar))

\* The loop awaits a chunk with the beginning of a line in the buffer,
\* after a chunk that held the end of one line and the beginning of the
\* next.
C28_Witness ==
    /\ pc = "read"
    /\ buffer # << >>
    /\ LastLF(TextSoFar) > 0
    /\ Len(FrameCalls) >= 1

\* C25: startTrack and endTrack, when both are set, are different tracks;
\* handleSelectStart with the track that is the end track leaves startTrack
\* as it is, and so does handleSelectEnd with the start track for endTrack.
C25_DistinctEndpoints ==
    /\ (startTrack # NoTrack /\ endTrack # NoTrack) => startTrack # endTrack
    /\ \A t \in Tracks :
         /\ t = endTrack => AfterSelectStart(startTrack, endTrack, t) = startTrack
         /\ t = startTrack => AfterSelectEnd(startTrack, endTrack, t) = endTrack

\* Both tracks are set, each by its handler.
C25_Witness ==
    /\ startTrack # NoTrack
    /\ endTrack # NoTrack

\* C26: anchors never holds more than 5 tracks nor the same track_id
\* twice; handleAddAnchor with 5 tracks present, or with a track_id that is
\* present, leaves anchors as it is.
C26_AnchorSet ==
    /\ Len(anchors) <= 5
    /\ \A i, k \in 1..Len(anchors) : i # k => anchors[i] # anchors[k]
    /\ \A t \in Tracks :
         (Len(anchors) = 5 \/ \E i \in 1..Len(anchors) : anchors[i] = t)
             => AfterAddAnchor(anchors, t) = anchors

\* Five anchors are set and a sixth track is on offer.
C26_Witness ==
    /\ Len(anchors) = 5
    /\ \E t \in Tracks : \A i \in 1..Len(anchors) : anchors[i] # t

\* C27: localValue = [lo, hi] always has min <= lo, lo + step <= hi and
\* hi <= max; a handleMinChange or handleMaxChange that moves a thumb calls
\* onChange, with the pair it has just set, if isActive is true and calls
\* nothing if not, and no handler of a slider that is and stays inactive
\* calls onChange.
C27_SliderBounds ==
    /\ [](/\ props.min <= localValue[1]
          /\ localValue[1] + props.step <= localValue[2]
          /\ localValue[2] <= props.max)
    /\ [][ /\ localValue' # localValue
               => onChangeArg' = (IF isActive THEN << localValue' >> ELSE << >>)
           /\ (~isActive /\ ~isActive') => onChangeArg' = << >> ]_vars

\* handleMinChange was given a value above hi - step on an active slider
\* with a step of 2: lo is hi - step and the parent holds the pair.
C27_Witness ==
    /\ isActive
    /\ props.step = 2
    /\ localValue[1] + props.step = localValue[2]
    /\ localValue[1] > props.min
    /\ onChangeArg = << localValue >>
    /\ value = localValue

\* C23: the job started before the one cancelFrogRef refers to has had its
\* cancel function called (at most one subscription of the page is not
\* cancelled); a handleGenerateFrog that starts a job while another was
\* started before calls the cancel function of that one; and no step of a
\* superseded job invokes a handler or changes frogLoading, frogProgress,
\* frogResult or frogError.
C23_Superseding ==
    /\ [](cancelFrogRef # 0 =>
            (SupersededJob.pc = "none" \/ SupersededJob.aborted))
    /\ [][(jobs' = jobs + 1 /\ jobs >= 1) =>
            /\ other'.aborted
            /\ other'.cancels = cancels + 1
            /\ other'.calls = calls ]_vars
    /\ [][(cancelFrogRef # 0 /\ cancelFrogRef # active /\ active' = active) =>
            /\ page' = page
            /\ calls' = calls ]_vars

\* A job was superseded while its result frame was still on the way, its
\* chain has settled on the abort, and the job that superseded it has
\* delivered its result to the page.
C23_Witness ==
    /\ jobs >= 2
    /\ SupersededJob.ended = "aborted"
    /\ SupersededJob.stream = StreamShort
    /\ SupersededJob.sent < Len(StreamShort)
    /\ LatestJob.pc = "done"
    /\ page.frogResult # << >>

\* C24 (as claimed): once the transport of the job cancelFrogRef refers
\* to, never cancelled, has ended, frogLoading is false.  A settled chain
\* invokes no handler any more, so a frogLoading that is true then stays
\* true until another job is started.
C24_LoadingEnds ==
    (cancelFrogRef # 0 /\ LatestJob.pc = "done" /\ LatestJob.cancels = 0)
        => ~page.frogLoading
====
